---------------------------- MODULE Spec2Model ----------------------------
(***************************************************************************)
(* A model of the screeps bot in src/src/lib.rs: the per-tick game_loop    *)
(* (tower pass, creep loop over run_creep, spawn loop) and the task        *)
(* registry CREEP_TARGETS that run_creep reads and writes.                 *)
(*                                                                         *)
(* The host (the game engine) is the environment: what it returns to the   *)
(* code (store amounts, resolve results, ranges, action outcomes, room     *)
(* contents, random draws) is drawn from bounded sets with \E.             *)
(***************************************************************************)
EXTENDS Integers, Sequences, FiniteSets, TLC

(***************************************************************************)
(* Bounds of the model.                                                    *)
(***************************************************************************)
\* ticks run per behaviour
MaxTicks == 2
\* structures in a room snapshot handed to the selector on its own
MaxStructs == 2
\* construction sites in a room snapshot handed to the selector on its own
MaxSites == 2
\* ticks run per behaviour of the spawn loop on its own
MaxPopTicks == 3

(***************************************************************************)
(* Program constants.                                                      *)
(***************************************************************************)
\* controller.ticks_to_downgrade() < time_to_downgrade - 5000
DowngradeMargin == 5000
\* in_range_to(.., 3): upgrade, build, repair
ActRange == 3
\* is_near_to: harvest, transfer
NearRange == 1
\* the energy a creep of either body of the table can carry: two Carry
\* parts of 50 each
CarryCap == 100

\* creep.store().get_used_capacity(Some(Energy)): empty, partly filled, full
UsedSamples == {0, 50, CarryCap}

\* distances between a creep and the target of its task: the last one in
\* the range its arm asks for and the first one out of it
DistSamples(task) ==
    IF task.kind \in {"Harvest", "Store"} THEN {NearRange, NearRange + 1}
    ELSE {ActRange, ActRange + 1}

\* Part::cost() of the parts the threshold table uses
PartCost(p) ==
    CASE p = "Move" -> 50
      [] p = "Carry" -> 50
      [] p = "Work" -> 100
      [] OTHER -> 0

RECURSIVE SumParts(_)
\* impl SumParts for [Part]: the sum of the parts' costs
SumParts(body) ==
    IF body = << >> THEN 0 ELSE PartCost(Head(body)) + SumParts(Tail(body))

\* a plausible slip: the two loadouts in the other rows
THRESHOLDSSwapped ==
    << [threshold |-> 6, cost |-> 550,
        body |-> <<"Move", "Move", "Move", "Carry", "Carry",
                   "Work", "Work", "Work">>],
       [threshold |-> 20, cost |-> 300,
        body |-> <<"Move", "Move", "Carry", "Carry", "Work">>] >>

\* const THRESHOLDS: &[(usize, u32, &[Part])]
THRESHOLDS ==
    << [threshold |-> 6, cost |-> 300,
        body |-> <<"Move", "Move", "Carry", "Carry", "Work">>],
       [threshold |-> 20, cost |-> 550,
        body |-> <<"Move", "Move", "Move", "Carry", "Carry",
                   "Work", "Work", "Work">>] >>

\* the result of the threshold scan when no row is taken
NoBody == << >>

RECURSIVE SkipWhileAboveOrEqual(_, _)
\* a plausible slip: a row is also skipped when its threshold equals the
\* number of creeps (>= for >)
SkipWhileAboveOrEqual(rows, current_creeps) ==
    IF rows = << >> THEN << >>
    ELSE IF current_creeps >= Head(rows).threshold
         THEN SkipWhileAboveOrEqual(Tail(rows), current_creeps)
         ELSE rows

RECURSIVE SkipWhileAbove(_, _)
\* .iter().skip_while(|(threshold, _, _)| &current_creeps > threshold)
SkipWhileAbove(rows, current_creeps) ==
    IF rows = << >> THEN << >>
    ELSE IF current_creeps > Head(rows).threshold
         THEN SkipWhileAbove(Tail(rows), current_creeps)
         ELSE rows

\* a plausible slip: the thresholds are not looked at, the first row the
\* room can pay for is taken
ChooseBodyNoThreshold(current_creeps, energy_available) ==
    IF THRESHOLDS[1].cost <= energy_available THEN THRESHOLDS[1].body
    ELSE NoBody

\* THRESHOLDS.iter().skip_while(..).next().filter(cost <= energy).map(body)
ChooseBody(current_creeps, energy_available) ==
    LET rows == SkipWhileAbove(THRESHOLDS, current_creeps)
    IN IF rows = << >> THEN NoBody
       ELSE IF Head(rows).cost <= energy_available
            THEN Head(rows).body ELSE NoBody


(***************************************************************************)
(* CreepTarget: the task an agent is locked on, holding an object id.      *)
(***************************************************************************)
\* enum CreepTarget / enum StoreTarget, as [kind, sub, id]
CreepTarget(kind, sub, id) == [kind |-> kind, sub |-> sub, id |-> id]

\* a vacant registry entry
NoTarget == CreepTarget("None", "None", 0)

(***************************************************************************)
(* The room snapshot the selector scans: room.find(STRUCTURES) is a list   *)
(* of structures (the object id of a structure is its place in the list),  *)
(* room.find(CONSTRUCTION_SITES) a list of sites, each TRUE when its       *)
(* try_id() is Some (the id of a site is its place in the list), and       *)
(* room.find(SOURCES_ACTIVE) a number of sources (ids 0 .. n-1).           *)
(***************************************************************************)
\* a StructureObject with the attributes the selector reads
Structure(kind, level, ttd, free, terrain, hits) ==
    [kind |-> kind, level |-> level, ttd |-> ttd, free |-> free,
     terrain |-> terrain, hits |-> hits]

\* match controller.level() { 1 => 20_000, ... _ => 20_000 }
TimeToDowngrade(level) ==
    CASE level = 1 -> 20000
      [] level = 2 -> 10000
      [] level = 3 -> 20000
      [] level = 4 -> 40000
      [] level = 5 -> 80000
      [] level = 6 -> 120000
      [] level = 7 -> 150000
      [] level = 8 -> 200000
      [] OTHER -> 20000

\* match terrain { Plain => 5_000, Swamp => 25_000, Wall => 750_000 }
TerrainThreshold(terrain) ==
    CASE terrain = "Plain" -> 5000
      [] terrain = "Swamp" -> 25000
      [] terrain = "Wall" -> 750000

\* let threshold = threshold * 8 / 10
RoadThreshold(terrain) == (TerrainThreshold(terrain) * 8) \div 10

\* controller.ticks_to_downgrade() < time_to_downgrade - 5000
NeedsTimerReset(s) ==
    /\ s.kind = "Controller"
    /\ s.ttd < TimeToDowngrade(s.level) - DowngradeMargin

\* get_free_capacity(Some(Energy)) > 0 on a structure of the given kind
HasFreeCapacity(s, kind) == s.kind = kind /\ s.free > 0

\* a road whose terrain was looked up and whose hits are under the threshold
NeedsRepair(s) ==
    /\ s.kind = "Road"
    /\ s.terrain \in {"Plain", "Swamp", "Wall"}
    /\ s.hits < RoadThreshold(s.terrain)

\* the first structure of the list satisfying P, 0 if none: a for loop
\* over all_structures.iter() that breaks at its first match
FirstMatch(structures, P(_)) ==
    LET hits == {i \in 1..Len(structures) : P(structures[i])}
    IN IF hits = {} THEN 0
       ELSE CHOOSE i \in hits : \A j \in hits : i <= j

\* for site in sites.iter() { if let Some(id) = site.try_id() { .. break } }:
\* the place of the first site that has an id, 0 if there is none
FirstSite(sites) ==
    LET hits == {i \in 1..Len(sites) : sites[i]}
    IN IF hits = {} THEN 0
       ELSE CHOOSE i \in hits : \A j \in hits : i <= j

\* a plausible slip: extensions scanned before the controller timer check
SelectCarryingExtensionFirst(structures, sites) ==
    LET e == FirstMatch(structures, LAMBDA s : HasFreeCapacity(s, "Extension"))
        c == FirstMatch(structures, NeedsTimerReset)
    IN IF e # 0 THEN CreepTarget("Store", "Extension", e)
       ELSE IF c # 0 THEN CreepTarget("Upgrade", "None", c)
       ELSE NoTarget

\* a scan without the last loop over the controllers
SelectCarryingNoFallback(structures, sites) ==
    LET danger == FirstMatch(structures, NeedsTimerReset)
        spawn == FirstMatch(structures, LAMBDA s : HasFreeCapacity(s, "Spawn"))
        ext == FirstMatch(structures, LAMBDA s : HasFreeCapacity(s, "Extension"))
        tower == FirstMatch(structures, LAMBDA s : HasFreeCapacity(s, "Tower"))
        road == FirstMatch(structures, NeedsRepair)
    IN IF danger # 0 THEN CreepTarget("Upgrade", "None", danger)
       ELSE IF spawn # 0 THEN CreepTarget("Store", "Spawn", spawn)
       ELSE IF ext # 0 THEN CreepTarget("Store", "Extension", ext)
       ELSE IF tower # 0 THEN CreepTarget("Store", "Tower", tower)
       ELSE IF road # 0 THEN CreepTarget("Repair", "None", road)
       ELSE IF FirstSite(sites) # 0
            THEN CreepTarget("Construct", "None", FirstSite(sites))
       ELSE NoTarget

\* run_creep, Entry::Vacant, carried energy > 0: the priority scan
SelectCarrying(structures, sites) ==
    LET danger == FirstMatch(structures, NeedsTimerReset)
        spawn == FirstMatch(structures, LAMBDA s : HasFreeCapacity(s, "Spawn"))
        ext == FirstMatch(structures, LAMBDA s : HasFreeCapacity(s, "Extension"))
        tower == FirstMatch(structures, LAMBDA s : HasFreeCapacity(s, "Tower"))
        road == FirstMatch(structures, NeedsRepair)
        ctrl == FirstMatch(structures, LAMBDA s : s.kind = "Controller")
    IN IF danger # 0 THEN CreepTarget("Upgrade", "None", danger)
       ELSE IF spawn # 0 THEN CreepTarget("Store", "Spawn", spawn)
       ELSE IF ext # 0 THEN CreepTarget("Store", "Extension", ext)
       ELSE IF tower # 0 THEN CreepTarget("Store", "Tower", tower)
       ELSE IF road # 0 THEN CreepTarget("Repair", "None", road)
       ELSE IF FirstSite(sites) # 0
            THEN CreepTarget("Construct", "None", FirstSite(sites))
       ELSE IF ctrl # 0 THEN CreepTarget("Upgrade", "None", ctrl)
       ELSE NoTarget

\* rng.gen_range(0..max) panics on an empty range
GenRangePanics(max) == max = 0

\* the smaller of the two draws
RandomInRangeSmaller(u1, u2) == IF u1 <= u2 THEN u1 ELSE u2

\* [gen(), gen()].into_iter().max().unwrap()
RandomInRange(u1, u2) == IF u1 >= u2 THEN u1 ELSE u2

\* run_creep, Entry::Vacant, carried energy = 0: sources.get(random_in_range)
SelectHarvest(sources, u1, u2) ==
    LET random_in_range == RandomInRange(u1, u2)
    IN IF random_in_range < sources
       THEN CreepTarget("Harvest", "None", random_in_range)
       ELSE NoTarget


(***************************************************************************)
(* CREEP_TARGETS: HashMap<String, CreepTarget>, kept as its set of         *)
(* (key, value) pairs and changed only through the Entry API.              *)
(***************************************************************************)
\* the keys of the map
Keys(m) == {p[1] : p \in m}

\* a plausible slip: every entry is taken as vacant
IsVacantAlways(m, k) == TRUE

\* creep_targets.entry(name) is Entry::Vacant
IsVacant(m, k) == k \notin Keys(m)

\* creep_targets.entry(name) is Entry::Occupied
IsOccupied(m, k) == k \in Keys(m)

\* OccupiedEntry::get
Get(m, k) == (CHOOSE p \in m : p[1] = k)[2]

\* a removal that puts another task in the entry's place
RemoveRetarget(m, k) ==
    {p \in m : p[1] # k} \cup {<<k, [kind |-> "Upgrade", sub |-> "None", id |-> 0]>>}

\* a removal that empties the whole registry
RemoveAll(m, k) == {}

\* OccupiedEntry::remove
Remove(m, k) == {p \in m : p[1] # k}

\* VacantEntry::insert
Insert(m, k, v) == m \cup {<<k, v>>}

(***************************************************************************)
(* run_creep, Entry::Occupied: the match on the held task.                 *)
(***************************************************************************)
\* a match without guards
GuardPassesAlways(task, used, free) == TRUE

\* the match guards on the agent's store: Upgrade if used > 0, Harvest if
\* free > 0; every other arm has no guard
GuardPasses(task, used, free) ==
    CASE task.kind = "Upgrade" -> used > 0
      [] task.kind = "Harvest" -> free > 0
      [] OTHER -> TRUE

\* one range check for every arm
InRangeAlwaysThree(task, dist) == dist <= ActRange

\* creep.pos().is_near_to(..) for Harvest and Store,
\* creep.pos().in_range_to(.., 3) for Upgrade, Construct and Repair
InRange(task, dist) ==
    IF task.kind \in {"Harvest", "Store"} THEN dist <= NearRange
    ELSE dist <= ActRange

\* the arms whose `if let Some(..) = resolve()` has no else branch
KeptWhenUnresolved(task) == task.kind = "Repair"

\* a plausible slip: a not-in-range error falls back to a move
EvictsAfterActionRangeKept(task, result) ==
    IF task.kind = "Repair" THEN TRUE
    ELSE result \notin {"Ok", "NotInRange"}

\* a closure that only logs the error
EvictsAfterActionErrorsKept(task, result) == task.kind = "Repair"

\* a Repair arm written like the other four
EvictsOnErrorOnly(task, result) == result # "Ok"

\* after the terminal action: unwrap_or_else(|e| entry.remove()) for
\* Upgrade, Harvest, Construct and Store; entry.remove() whatever the
\* result for Repair
EvictsAfterAction(task, result) ==
    IF task.kind = "Repair" THEN TRUE ELSE result # "Ok"

\* the outcomes of a terminal action (Ok or an ErrorCode)
ActionResults == {"Ok", "NotInRange", "NotEnough", "Full"}

\* the outcomes of default_move_to, all discarded by `let _ =`
MoveResults == {"Ok", "NoPath"}

\* MoveToOptions::new().reuse_path(5)
ReusePath == 5

\* a hint that depends on the kind of the target
MoveReusePerKind(task) ==
    IF task.kind = "Harvest" THEN ReusePath - 2 ELSE ReusePath

\* default_move_to(&target): the reuse hint of the move, whatever the target
MoveReuse(task) == ReusePath


(***************************************************************************)
(* State.                                                                  *)
(***************************************************************************)
VARIABLES
    tick,           \* game::time()
    pc,             \* where game_loop stands: idle, towers, creeps, spawns,
                    \* done, panicked
    alive,          \* game::creeps().keys(): names of the live creeps
    spawning,       \* the live creeps whose spawning() flag is set
    ran,            \* the creeps run_creep was called on in this tick
    creep_targets,  \* CREEP_TARGETS, as a set of (name, target) pairs
    spawns,         \* game::spawns().keys()
    spawnsRun,      \* the spawns the spawn loop has visited in this tick
    additional,     \* let mut additional = 0
    created,        \* names given to spawn_creep calls that returned Ok
    last            \* what the last step read from the host and issued

vars == <<tick, pc, alive, spawning, ran, creep_targets, spawns, spawnsRun,
          additional, created, last>>

\* the tick at which the code is loaded
FirstTick == 58

\* the decimal digits, as format! writes them
DigitChars == <<"0", "1", "2", "3", "4", "5", "6", "7", "8", "9">>

\* "{}" of a non-negative integer: its decimal digits, most significant first
RECURSIVE Digits(_)
Digits(n) ==
    IF n < 10 THEN <<DigitChars[n + 1]>>
    ELSE Digits(n \div 10) \o <<DigitChars[(n % 10) + 1]>>

\* a naming that leaves the sequence counter out
CreepNameTickOnly(t, n) == Digits(t) \o <<"-">> \o Digits(0)

\* creep names are "<tick>-<sequence>": format!("{}-{}", name_base, additional),
\* as the sequence of the string's characters
CreepName(t, n) == Digits(t) \o <<"-">> \o Digits(n)

\* game::time() is counted up to LastCounted; LaterTick stands for every
\* tick after it, where game_loop runs as before and the host's spawns are
\* busy, so that the names in use stay those of the counted ticks
LastCounted == FirstTick + MaxTicks

LaterTick == LastCounted + 1

\* the creeps alive when the code is loaded
InitialCreeps(n) == {CreepName(i, 0) : i \in 1..n}

\* thread_local! CREEP_TARGETS = HashMap::new(), in a world with two creeps
Init ==
    /\ tick = FirstTick
    /\ pc = "idle"
    /\ alive = InitialCreeps(2)
    /\ spawning = {}
    /\ ran = {}
    /\ creep_targets = {}
    /\ spawns = {"Spawn1"}
    /\ spawnsRun = {}
    /\ additional = 0
    /\ created = {}
    /\ last = [step |-> "init"]

\* game_loop up to the tower loop, on the host's next tick: creeps die,
\* creeps end their spawning, the creeps requested in the last tick appear.
\* The log of the registry every 10th tick and the cleanup of Memory.creeps
\* every 60th tick read game::creeps() and write the host's Memory object
\* only, which no other code of the loop reads: they change nothing here.
BeginTick(time) ==
    /\ pc \in {"idle", "done"}
    /\ tick' = time
    /\ \E dead \in SUBSET alive, fin \in SUBSET spawning :
         /\ alive' = (alive \ dead) \cup created
         /\ spawning' = ((spawning \ fin) \ dead) \cup created
         /\ last' = [step |-> "start", dead |-> dead]
    /\ created' = {}
    /\ additional' = 0
    /\ ran' = {}
    /\ spawnsRun' = {}
    /\ pc' = "towers"
    /\ UNCHANGED <<creep_targets, spawns>>

\* the next counted tick
StartTick ==
    /\ tick < LastCounted
    /\ BeginTick(tick + 1)

\* a tick after the counted ones
LaterStart ==
    /\ tick = LaterTick
    /\ BeginTick(LaterTick)

\* the towers of game::structures()
Towers == {"Tower1", "Tower2"}

\* the hostile creeps the host may show
Hostiles == {"Hostile1", "Hostile2"}

\* the ranges from a tower to the hostile creeps, 0 for a creep that is
\* not there: no hostile, one, a nearer and a farther one, two as near
HostileRanges ==
    {[h \in Hostiles |-> 0],
     [h \in Hostiles |-> IF h = "Hostile1" THEN 1 ELSE 0],
     [h \in Hostiles |-> IF h = "Hostile1" THEN 1 ELSE 2],
     [h \in Hostiles |-> IF h = "Hostile1" THEN 2 ELSE 1],
     [h \in Hostiles |-> 2]}

\* a tower loop that attacks whichever hostile creep it finds
ClosestAny(range) == {h \in Hostiles : range[h] > 0}

\* pos.find_closest_by_range(HOSTILE_CREEPS): a hostile at the least range
Closest(range) ==
    {h \in Hostiles : range[h] > 0 /\
        \A g \in Hostiles : range[g] > 0 => range[h] <= range[g]}

\* where game_loop goes after the creep loop
AfterCreeps(seen) ==
    IF alive \ seen # {} THEN "creeps"
    ELSE IF spawns = {} THEN "done" ELSE "spawns"

\* the outcomes of tower.attack(&target), an error only logged by the
\* closure of unwrap_or_else
AttackResults == {"Ok", "NotEnough"}

\* what one tower does under the ranges it sees: the hostile it attacks
\* and what the attack returned, "None" twice without a hostile
TowerSteps(range) ==
    IF Closest(range) = {} THEN {[target |-> "None", result |-> "None"]}
    ELSE [target : Closest(range), result : AttackResults]

\* the tower loop: each tower attacks the closest hostile creep, if any;
\* range[h] = 0 says that h is not in the room
RunTowers ==
    /\ pc = "towers"
    /\ \E range \in HostileRanges :
         \E steps \in [Towers -> TowerSteps(range)] :
             last' = [step |-> "towers", range |-> range,
                      attack |-> [t \in Towers |-> steps[t].target],
                      result |-> [t \in Towers |-> steps[t].result]]
    /\ pc' = AfterCreeps({})
    /\ UNCHANGED <<tick, alive, spawning, ran, creep_targets, spawns, spawnsRun, additional, created>>


(***************************************************************************)
(* run_creep, one call per live creep in the creep loop of game_loop.      *)
(***************************************************************************)
\* the record of one run_creep call: what it read and what it issued
CreepLog(c, branch, before, used) ==
    [step |-> "creep", creep |-> c, branch |-> branch, before |-> before,
     after |-> before, used |-> used, free |-> CarryCap - used,
     resolve |-> "NotCalled", dist |-> 0, result |-> "None",
     move |-> "None", reuse |-> 0, actions |-> 0, moves |-> 0,
     panicked |-> FALSE,
     structures |-> << >>, sites |-> << >>, sources |-> 0, draws |-> << >>]

\* a creep loop that does not leave the creep it has just run
CreepStepAgain(c, targets, log) ==
    /\ creep_targets' = targets
    /\ last' = log
    /\ ran' = ran
    /\ pc' = IF log.panicked THEN "panicked" ELSE "creeps"
    /\ UNCHANGED <<tick, alive, spawning, spawns, spawnsRun, additional,
                   created>>

\* the end of a run_creep call: the registry as it left it; a panic ends
\* game_loop, otherwise the creep loop goes on
CreepStep(c, targets, log) ==
    /\ creep_targets' = targets
    /\ last' = log
    /\ ran' = ran \cup {c}
    /\ pc' = IF log.panicked THEN "panicked" ELSE AfterCreeps(ran \cup {c})
    /\ UNCHANGED <<tick, alive, spawning, spawns, spawnsRun, additional,
                   created>>

\* if creep.spawning() { return; }
RunSpawning(c) ==
    /\ pc = "creeps"
    /\ c \in alive \ ran
    /\ c \in spawning
    /\ CreepStep(c, creep_targets,
                 CreepLog(c, "spawning",
                          IF IsOccupied(creep_targets, c)
                          THEN Get(creep_targets, c) ELSE NoTarget, 0))

\* Entry::Occupied(entry): guard, resolve, range check, then the terminal
\* action or default_move_to
RunOccupied(c) ==
    /\ pc = "creeps"
    /\ c \in alive \ ran
    /\ c \notin spawning
    /\ IsOccupied(creep_targets, c)
    /\ \E used \in UsedSamples :
         LET task == Get(creep_targets, c)
             log == CreepLog(c, "occupied", task, used)
             evicted == Remove(creep_targets, c)
         IN IF ~GuardPasses(task, used, CarryCap - used)
            THEN CreepStep(c, evicted,
                           [log EXCEPT !.after = NoTarget])
            ELSE \E resolved \in BOOLEAN :
              IF ~resolved
              THEN IF KeptWhenUnresolved(task)
                   THEN CreepStep(c, creep_targets,
                                  [log EXCEPT !.resolve = "None"])
                   ELSE CreepStep(c, evicted,
                                  [log EXCEPT !.resolve = "None",
                                              !.after = NoTarget])
              ELSE \E dist \in DistSamples(task) :
                IF InRange(task, dist)
                THEN \E result \in ActionResults :
                       IF EvictsAfterAction(task, result)
                       THEN CreepStep(c, evicted,
                                [log EXCEPT !.resolve = "Some",
                                            !.dist = dist,
                                            !.result = result,
                                            !.actions = 1,
                                            !.after = NoTarget])
                       ELSE CreepStep(c, creep_targets,
                                [log EXCEPT !.resolve = "Some",
                                            !.dist = dist,
                                            !.result = result,
                                            !.actions = 1])
                ELSE \E move \in MoveResults :
                       CreepStep(c, creep_targets,
                                [log EXCEPT !.resolve = "Some",
                                            !.dist = dist,
                                            !.move = move,
                                            !.reuse = MoveReuse(task),
                                            !.moves = 1])

\* Entry::Vacant(entry): creep.room().expect(..), then the priority scan
\* when the creep carries energy and the biased source draw when it does
\* not; structs, siteLists and sourceCounts are what the room may hold
RunVacant(c, structs, siteLists, sourceCounts) ==
    /\ pc = "creeps"
    /\ c \in alive \ ran
    /\ c \notin spawning
    /\ IsVacant(creep_targets, c)
    /\ \E used \in UsedSamples, roomOk \in BOOLEAN :
         LET log == CreepLog(c, "vacant", NoTarget, used)
         IN IF ~roomOk
            THEN CreepStep(c, creep_targets,
                           [log EXCEPT !.panicked = TRUE, !.used = 0,
                                       !.free = 0, !.resolve = "NoRoom"])
            ELSE IF used > 0
            THEN \E structures \in structs, sites \in siteLists :
                   LET target == SelectCarrying(structures, sites)
                       seen == [log EXCEPT !.structures = structures,
                                           !.sites = sites,
                                           !.after = target]
                   IN CreepStep(c,
                                IF target = NoTarget THEN creep_targets
                                ELSE Insert(creep_targets, c, target),
                                seen)
            ELSE \E sources \in sourceCounts :
                   IF GenRangePanics(sources)
                   THEN CreepStep(c, creep_targets,
                                  [log EXCEPT !.panicked = TRUE,
                                              !.sources = sources])
                   ELSE \E u1 \in 0..(sources - 1), u2 \in 0..(sources - 1) :
                     LET target == SelectHarvest(sources, u1, u2)
                         seen == [log EXCEPT !.sources = sources,
                                             !.draws = <<u1, u2>>,
                                             !.after = target]
                     IN CreepStep(c,
                                  IF target = NoTarget THEN creep_targets
                                  ELSE Insert(creep_targets, c, target),
                                  seen)


(***************************************************************************)
(* The rooms the host may show to the selector.                            *)
(***************************************************************************)
\* controllers of the level with the shortest timer, of the level with the
\* longest and of a level the match leaves to its default arm, just under
\* and just at the timer margin
ControllerSamples ==
    {Structure("Controller", l, TimeToDowngrade(l) - DowngradeMargin - d,
               0, "None", 0) : l \in {0, 2, 8}, d \in {0, 1}}

\* spawns, extensions and towers, full and with room for energy
StoreSamples ==
    {Structure(k, 0, 0, f, "None", 0) :
        k \in {"Spawn", "Extension", "Tower"}, f \in {0, 50}}

\* roads on each terrain, just under and just at the repair threshold,
\* and a road whose terrain lookup gave nothing
RoadSamples ==
    {Structure("Road", 0, 0, 0, t, RoadThreshold(t) - d) :
        t \in {"Plain", "Swamp", "Wall"}, d \in {0, 1}}
    \cup {Structure("Road", 0, 0, 0, "None", 1)}

\* a structure the selector has no use for
OtherSamples == {Structure("Container", 0, 0, 50, "None", 1)}

\* every structure a room snapshot is built from
StructSamples ==
    ControllerSamples \cup StoreSamples \cup RoadSamples \cup OtherSamples

\* the lists of at most n structures
StructLists(n) == UNION {[1..k -> StructSamples] : k \in 0..n}

\* the structure lists of the rooms of a whole tick: at most one structure,
\* one that the selector takes
TickStructLists ==
    {<< >>} \cup
    {<<s>> : s \in {Structure("Controller", 2, 4999, 0, "None", 0),
                    Structure("Spawn", 0, 0, 50, "None", 0),
                    Structure("Road", 0, 0, 0, "Plain", 3999)}}

\* the lists of at most n construction sites, with or without an id
SiteLists(n) == UNION {[1..k -> BOOLEAN] : k \in 0..n}

\* the construction sites of the rooms of a whole tick: none, or a site
\* placed in this tick, still without an id, before one that has its id
TickSiteLists == {<< >>, <<FALSE, TRUE>>}

\* the active sources of the rooms of a whole tick: none or one
TickSourceCounts == {0, 1}

(***************************************************************************)
(* The spawn loop of game_loop.                                            *)
(***************************************************************************)
\* room.energy_available(), around the costs of the table
Energies == {299, 300, 549, 550}

\* what spawn_creep may return for a name: Ok only for a new name
SpawnResults(name) ==
    IF name \in alive \cup created THEN {"NameExists"}
    ELSE IF tick = LaterTick THEN {"Busy"}
    ELSE {"Ok", "Busy"}

\* the end of one pass of the spawn loop
SpawnStep(s, log) ==
    /\ last' = log
    /\ spawnsRun' = spawnsRun \cup {s}
    /\ pc' = IF spawns \ (spawnsRun \cup {s}) = {} THEN "done" ELSE "spawns"
    /\ UNCHANGED <<tick, alive, spawning, ran, creep_targets, spawns>>

\* game::creeps() as a pass of the spawn loop may find it: the host shows
\* the creeps requested earlier in the tick at once, or from the next tick
CreepsSeen == {alive, alive \cup created}

\* for spawn in game::spawns().values(): the threshold scan on the number
\* of creeps of game::creeps(), read anew in every pass, and the room's
\* energy, then spawn_creep under the name "<tick>-<additional>";
\* additional counts the calls that returned Ok
RunSpawn(s) ==
    /\ pc = "spawns"
    /\ s \in spawns \ spawnsRun
    /\ \E roomOk \in BOOLEAN, seen \in CreepsSeen :
         LET log == [step |-> "spawn", spawn |-> s, roomOk |-> roomOk,
                     pop |-> Cardinality(seen), energy |-> 0,
                     body |-> NoBody, name |-> CreepName(tick, additional),
                     result |-> "None"]
         IN IF ~roomOk
            THEN /\ SpawnStep(s, log)
                 /\ UNCHANGED <<additional, created>>
            ELSE \E energy_available \in Energies :
              LET current_creeps == Cardinality(seen)
                  body == ChooseBody(current_creeps, energy_available)
                  name == CreepName(tick, additional)
              IN IF body = NoBody
                 THEN /\ SpawnStep(s, [log EXCEPT !.energy = energy_available])
                      /\ UNCHANGED <<additional, created>>
                 ELSE \E result \in SpawnResults(name) :
                        /\ SpawnStep(s, [log EXCEPT
                                           !.energy = energy_available,
                                           !.body = body,
                                           !.result = result])
                        /\ additional' =
                             IF result = "Ok" THEN additional + 1
                             ELSE additional
                        /\ created' =
                             IF result = "Ok" THEN created \cup {name}
                             ELSE created

\* a global reset of the worker: the thread_local registry starts empty
\* again; the only way on after a panic
GlobalReset ==
    /\ pc \in {"done", "panicked"}
    /\ creep_targets' = {}
    /\ pc' = "idle"
    /\ last' = [step |-> "reset"]
    /\ UNCHANGED <<tick, alive, spawning, ran, spawns,
                   spawnsRun, additional, created>>

\* run_creep(&creep, &mut creep_targets) on the next creep of the loop,
\* in whichever order game::creeps().values() lists the creeps
RunCreep ==
    \E c \in alive \ ran :
        \/ RunSpawning(c)
        \/ RunOccupied(c)
        \/ RunVacant(c, TickStructLists, TickSiteLists, TickSourceCounts)

\* one step of the program or of its host
Next ==
    \/ StartTick
    \/ RunTowers
    \/ RunCreep
    \/ \E s \in spawns : RunSpawn(s)
    \/ GlobalReset

\* the tick loop
Spec == Init /\ [][Next]_vars


(***************************************************************************)
(* The selector on its own: one run_creep call on a vacant entry, in a     *)
(* room drawn from every list of at most MaxStructs structures.            *)
(***************************************************************************)
\* the creep loop of the first tick, reached with one live creep
SelInit ==
    /\ tick = FirstTick + 1
    /\ pc = "creeps"
    /\ alive = InitialCreeps(1)
    /\ spawning = {}
    /\ ran = {}
    /\ creep_targets = {}
    /\ spawns = {"Spawn1"}
    /\ spawnsRun = {}
    /\ additional = 0
    /\ created = {}
    /\ last = [step |-> "init"]

\* the most active sources of a room shown to the selector on its own
MaxSelSources == 4

\* run_creep on the vacant entry of the creep
SelNext ==
    \E c \in alive :
        RunVacant(c, StructLists(MaxStructs), SiteLists(MaxSites),
                  0..MaxSelSources)

\* the selector under every room snapshot
SelSpec == SelInit /\ [][SelNext]_vars

(***************************************************************************)
(* The population controller over ticks: game_loop with two spawns, from   *)
(* populations just under the two thresholds. The creeps are full of       *)
(* energy in a room without structures and construction sites, where       *)
(* run_creep finds no task, so the registry stays as it is and the creep   *)
(* loop is one step with the start of the tick and the tower loop.         *)
(***************************************************************************)
\* the populations the spawn loop starts from
PopStarts == {THRESHOLDS[i].threshold - 1 : i \in 1..Len(THRESHOLDS)}

\* the code loaded into a world of p creeps and two spawns
PopInit ==
    /\ tick = FirstTick
    /\ pc = "idle"
    /\ \E p \in PopStarts : alive = InitialCreeps(p)
    /\ spawning = {}
    /\ ran = {}
    /\ creep_targets = {}
    /\ spawns = {"Spawn1", "Spawn2"}
    /\ spawnsRun = {}
    /\ additional = 0
    /\ created = {}
    /\ last = [step |-> "init"]

\* the creeps that may die in these ticks: the two oldest, one at a time
PopDeaths == {{}} \cup {{c} : c \in alive \cap InitialCreeps(2)}

\* the creep loop over the creeps in runs, each with a vacant entry, full
\* of energy, in a room with neither structures nor construction sites
PopCreepLoop(targets, runs) ==
    LET target == SelectCarrying(<< >>, << >>)
    IN IF target = NoTarget THEN targets
       ELSE targets \cup {<<c, target>> : c \in runs}

\* game_loop up to the spawn loop, on the host's next tick: a creep may die,
\* the creeps still spawning may be done, the creeps requested in the last
\* tick appear; the tower loop; run_creep on every creep, which returns at
\* once for a spawning creep; let mut additional = 0
PopTick ==
    /\ pc \in {"idle", "done"}
    /\ tick < FirstTick + MaxPopTicks
    /\ tick' = tick + 1
    /\ \E dead \in PopDeaths, fin \in {{}, spawning},
          range \in HostileRanges :
         \E steps \in [Towers -> TowerSteps(range)] :
             /\ alive' = (alive \ dead) \cup created
             /\ spawning' = ((spawning \ fin) \ dead) \cup created
             /\ ran' = alive'
             /\ creep_targets' =
                    PopCreepLoop(creep_targets,
                                 {c \in alive' \ spawning' :
                                     IsVacant(creep_targets, c)})
             /\ last' = [step |-> "start", dead |-> dead, range |-> range,
                         attack |-> [t \in Towers |-> steps[t].target],
                         result |-> [t \in Towers |-> steps[t].result]]
    /\ created' = {}
    /\ additional' = 0
    /\ spawnsRun' = {}
    /\ pc' = "spawns"
    /\ UNCHANGED spawns

\* a tick of the spawn loop
PopNext == PopTick \/ \E s \in spawns : RunSpawn(s)

\* the population controller over ticks
PopSpec == PopInit /\ [][PopNext]_vars

(***************************************************************************)
(* The threshold scan on its own, at two populations and one energy.       *)
(***************************************************************************)
\* the largest population the scan is asked about
MaxPop == 22

\* two populations p1 < p2 and the energy of the room
BodyInit ==
    /\ tick = FirstTick
    /\ pc = "scan"
    /\ alive = {}
    /\ spawning = {}
    /\ ran = {}
    /\ creep_targets = {}
    /\ spawns = {"Spawn1"}
    /\ spawnsRun = {}
    /\ additional = 0
    /\ created = {}
    /\ \E p1 \in 0..MaxPop, p2 \in 0..MaxPop, e \in Energies :
         /\ p1 < p2
         /\ last = [step |-> "pops", p1 |-> p1, p2 |-> p2, energy |-> e]

\* the threshold scan of the spawn loop, run at both populations
CompareBodies ==
    /\ pc = "scan"
    /\ pc' = "scanned"
    /\ last' = [step |-> "bodies", p1 |-> last.p1, p2 |-> last.p2,
                energy |-> last.energy,
                body1 |-> ChooseBody(last.p1, last.energy),
                body2 |-> ChooseBody(last.p2, last.energy)]
    /\ UNCHANGED <<tick, alive, spawning, ran, creep_targets, spawns, spawnsRun, additional, created>>

\* the threshold scan over pairs of populations
BodySpec == BodyInit /\ [][CompareBodies]_vars

\* the tick loop, where every step of game_loop that can be taken is taken
\* in the end; a global reset is up to the host
\* the worker at a tick after the counted ones, its registry empty as a
\* global reset leaves it
FairInit ==
    /\ tick = LaterTick
    /\ pc = "idle"
    /\ alive = InitialCreeps(2)
    /\ spawning = {}
    /\ ran = {}
    /\ creep_targets = {}
    /\ spawns = {"Spawn1"}
    /\ spawnsRun = {}
    /\ additional = 0
    /\ created = {}
    /\ last = [step |-> "init"]

FairNext ==
    \/ LaterStart
    \/ RunTowers
    \/ RunCreep
    \/ \E s \in spawns : RunSpawn(s)
    \/ GlobalReset

\* game_loop is called on every tick and runs each of its loops to the end
\* unless it panics; nothing makes the host reset the worker
SpecFair ==
    /\ FairInit
    /\ [][FairNext]_vars
    /\ WF_vars(LaterStart)
    /\ WF_vars(RunTowers)
    /\ WF_vars(RunCreep)
    /\ WF_vars(\E s \in spawns : RunSpawn(s))


(***************************************************************************)
(* Properties.                                                             *)
(***************************************************************************)
\* the last step was run_creep on an occupied entry
OccupiedPass == last.step = "creep" /\ last.branch = "occupied"

\* the last step was run_creep on a vacant entry whose room resolved
VacantPass ==
    last.step = "creep" /\ last.branch = "vacant" /\ last.resolve # "NoRoom"

\* the entry of creep c holds exactly the task t
Holds(c, t) == {p \in creep_targets : p[1] = c} = {<<c, t>>}

\* C1: whenever run_creep processes an occupied entry whose handle resolves
\* to nothing, whatever the task kind and the carried energy, the entry is
\* vacant after the pass and neither a terminal action nor a move was issued.
C1_EvictOnMissingReferent ==
    (OccupiedPass /\ last.resolve = "None") =>
        /\ IsVacant(creep_targets, last.creep)
        /\ last.actions = 0
        /\ last.moves = 0

\* C2 as stated: whenever the terminal action of a resolved task reports
\* NotInRange, the entry still holds the same task after the pass and exactly
\* one move directive was issued.
C2_RangeFallbackOnActionError ==
    (OccupiedPass /\ last.resolve = "Some" /\ last.result = "NotInRange") =>
        /\ Holds(last.creep, last.before)
        /\ last.moves = 1

\* the agent is out of the range its task needs: farther than 1 from a
\* Harvest or Store target, farther than 3 from any other target
TooFar ==
    \/ last.before.kind \in {"Harvest", "Store"} /\ last.dist > 1
    \/ last.before.kind \in {"Upgrade", "Construct", "Repair"} /\ last.dist > 3

\* C2 as amended: the range fallback is the proximity check made before the
\* action. When the agent is out of range of a resolved target, no terminal
\* action is attempted, the entry still holds the same task and exactly one
\* move directive was issued; a terminal action is attempted only in range,
\* and if it reports NotInRange the entry is evicted and no move is issued.
C2_RangeFallbackByProximity ==
    (OccupiedPass /\ last.resolve = "Some") =>
        /\ TooFar =>
             /\ Holds(last.creep, last.before)
             /\ last.actions = 0
             /\ last.moves = 1
        /\ last.actions = 1 => ~TooFar
        /\ last.result = "NotInRange" =>
             /\ IsVacant(creep_targets, last.creep)
             /\ last.moves = 0

\* C2 witness: an in-range action reported NotInRange and the entry is gone
C2_Witness ==
    /\ OccupiedPass
    /\ last.result = "NotInRange"
    /\ last.before.kind = "Store"
    /\ IsVacant(creep_targets, last.creep)

\* C3: whenever an agent with a vacant entry and no carried energy is
\* processed in a room with no active source, the pass completes normally,
\* no task is inserted and the entry is still vacant.
C3_IdleOnEmptyCandidateSet ==
    (VacantPass /\ last.used = 0 /\ last.sources = 0) =>
        /\ ~last.panicked
        /\ pc # "panicked"
        /\ IsVacant(creep_targets, last.creep)

\* C4: every tick runs to completion: when game_loop is over, run_creep was
\* called on every live creep and the spawn loop visited every spawn.
C4_FailureIsolation ==
    pc \in {"done", "panicked"} =>
        /\ pc = "done"
        /\ alive \subseteq ran
        /\ spawnsRun = spawns


\* the structures of the scanned room that satisfy P
Matching(P(_)) ==
    {i \in 1..Len(last.structures) : P(last.structures[i])}

\* priority 1: a controller whose ticks-to-downgrade is below its
\* per-level table value minus 5000
Danger(s) ==
    s.kind = "Controller" /\ s.ttd + 5000 < TimeToDowngrade(s.level)

\* priorities 2 to 4: a spawn, extension or tower with free capacity
FreeSpawn(s) == s.kind = "Spawn" /\ s.free >= 1

FreeExtension(s) == s.kind = "Extension" /\ s.free >= 1

FreeTower(s) == s.kind = "Tower" /\ s.free >= 1

\* priority 5: a road whose hits are below 80% of its terrain threshold
WornRoad(s) ==
    /\ s.kind = "Road"
    /\ s.terrain # "None"
    /\ 10 * s.hits < 8 * TerrainThreshold(s.terrain)

\* priority 6: the construction sites of the scanned room that have an id
SitesWithId == {i \in 1..Len(last.sites) : last.sites[i]}

\* priority 7: any controller
AnyController(s) == s.kind = "Controller"

\* the rank of the first satisfied priority of the scanned room, 8 if
\* none, when priority 6 is satisfied by the sites in the set sites
PriorityRank(sites) ==
    IF Matching(Danger) # {} THEN 1
    ELSE IF Matching(FreeSpawn) # {} THEN 2
    ELSE IF Matching(FreeExtension) # {} THEN 3
    ELSE IF Matching(FreeTower) # {} THEN 4
    ELSE IF Matching(WornRoad) # {} THEN 5
    ELSE IF sites # {} THEN 6
    ELSE IF Matching(AnyController) # {} THEN 7
    ELSE 8

\* the rank when only a site with an id satisfies priority 6
FirstPriority == PriorityRank(SitesWithId)

\* the entry after the pass is that of priority r, Construct being of a
\* site of the set sites
TaskOfRank(r, sites) ==
    LET t == last.after
    IN /\ r = 8 => t = NoTarget /\ IsVacant(creep_targets, last.creep)
       /\ r < 8 => Holds(last.creep, t)
       /\ r = 1 => t.kind = "Upgrade" /\ t.id \in Matching(Danger)
       /\ r = 2 => /\ t.kind = "Store" /\ t.sub = "Spawn"
                   /\ t.id \in Matching(FreeSpawn)
       /\ r = 3 => /\ t.kind = "Store" /\ t.sub = "Extension"
                   /\ t.id \in Matching(FreeExtension)
       /\ r = 4 => /\ t.kind = "Store" /\ t.sub = "Tower"
                   /\ t.id \in Matching(FreeTower)
       /\ r = 5 => t.kind = "Repair" /\ t.id \in Matching(WornRoad)
       /\ r = 6 => t.kind = "Construct" /\ t.id \in sites
       /\ r = 7 => t.kind = "Upgrade" /\ t.id \in Matching(AnyController)

\* C5: for an agent with a vacant entry and carried energy > 0, the task
\* inserted is that of the first satisfied priority, in the order Upgrade of
\* a controller near downgrade, Store(Spawn), Store(Extension), Store(Tower),
\* Repair of a worn road, Construct of a construction site, Upgrade of any
\* controller; none if no priority is satisfied.
C5_SelectorPriorityOrder ==
    (VacantPass /\ last.used > 0) =>
        TaskOfRank(PriorityRank(1..Len(last.sites)), 1..Len(last.sites))

\* C5 as amended: the same order, with priority 6 satisfied only by a
\* construction site that has an id, Construct being of the first such
\* site; a site without an id is passed over.
C5_SelectorPriorityOrderWithId ==
    (VacantPass /\ last.used > 0) =>
        /\ TaskOfRank(FirstPriority, SitesWithId)
        /\ FirstPriority = 6 => \A i \in SitesWithId : last.after.id <= i

\* C5 witness: a controller near downgrade and an extension with free
\* capacity were both in the room, and Upgrade was inserted
C5_Witness ==
    /\ VacantPass
    /\ last.used > 0
    /\ Matching(Danger) # {}
    /\ Matching(FreeExtension) # {}
    /\ Holds(last.creep, last.after)
    /\ last.after.kind = "Upgrade"

\* both populations of the scan get a loadout
BothChosen ==
    last.step = "bodies" /\ last.body1 # NoBody /\ last.body2 # NoBody

\* C6 as stated: for a fixed energy and populations p1 < p2 that both get a
\* loadout, the loadout at p2 is never larger (more parts, higher cost)
\* than the loadout at p1.
C6_LoadoutNeverLarger ==
    BothChosen =>
        /\ Len(last.body2) <= Len(last.body1)
        /\ SumParts(last.body2) <= SumParts(last.body1)

\* C6 as amended: for a fixed energy and populations p1 < p2 that both get a
\* loadout, the loadout at p2 is never smaller (fewer parts, lower cost)
\* than the loadout at p1.
C6_LoadoutNeverSmaller ==
    BothChosen =>
        /\ Len(last.body2) >= Len(last.body1)
        /\ SumParts(last.body2) >= SumParts(last.body1)

\* C6 witness: two populations on both sides of the first threshold, with
\* different loadouts
C6_Witness ==
    /\ BothChosen
    /\ last.p1 < 6
    /\ last.p2 > 6
    /\ last.body1 # last.body2


\* the last step was a pass of the spawn loop whose spawn has a room
SpawnPass == last.step = "spawn" /\ last.roomOk

\* the loadout of the first row of the table, in ascending order, that
\* satisfies Fits, or none
FirstRow(Fits(_)) ==
    LET fit == {i \in 1..Len(THRESHOLDS) : Fits(THRESHOLDS[i])}
    IN IF fit = {} THEN NoBody
       ELSE THRESHOLDS[CHOOSE i \in fit : \A j \in fit : i <= j].body

\* the spawn loop asked for a creep
Requested == last.step = "spawn" /\ last.result # "None"

\* C7 as stated: the loadout requested is that of the first row whose
\* ceiling strictly exceeds the population and whose cost is at most the
\* energy available; if there is no such row, no creation is requested.
C7_FirstRowAbovePopulation ==
    SpawnPass =>
        /\ last.body = FirstRow(LAMBDA r : r.threshold > last.pop
                                           /\ r.cost <= last.energy)
        /\ Requested <=> last.body # NoBody

\* C7 as amended: the loadout requested is that of the first row whose
\* ceiling is at least the population and whose cost is at most the energy
\* available; if there is no such row, no creation is requested.
C7_FirstRowNotBelowPopulation ==
    SpawnPass =>
        /\ last.body = FirstRow(LAMBDA r : r.threshold >= last.pop
                                           /\ r.cost <= last.energy)
        /\ Requested <=> last.body # NoBody

\* C7 witness: with as many creeps as the first row's ceiling, the first
\* row's loadout was requested
C7_Witness ==
    /\ SpawnPass
    /\ Requested
    /\ last.pop = THRESHOLDS[1].threshold
    /\ last.body = THRESHOLDS[1].body

\* the ceiling of the highest row of the table
Ceiling == THRESHOLDS[Len(THRESHOLDS)].threshold

\* C8 as stated: a creation is requested only at a population strictly
\* below the highest ceiling, and with no creep dying the population never
\* exceeds that ceiling.
C8_PopulationBelowCeiling ==
    /\ Requested => last.pop < Ceiling
    /\ Cardinality(alive) <= Ceiling

\* C8 as amended: a creation is requested only at a population of at most
\* the highest ceiling, and with no creep dying the population, started
\* below the ceiling, never exceeds the ceiling plus the number of spawns.
C8_PopulationNearCeiling ==
    /\ Requested => last.pop <= Ceiling
    /\ Cardinality(alive \cup created) <= Ceiling + Cardinality(spawns)

\* C8 witness: every spawn created a creep at a population of the ceiling
C8_Witness ==
    /\ pc = "spawns"
    /\ Cardinality(alive) = Ceiling + Cardinality(spawns)

\* C9: the registry maps each agent identity to at most one task.
C9_SingleActiveTask ==
    \A c \in Keys(creep_targets) :
        Cardinality({p \in creep_targets : p[1] = c}) = 1

\* C9 witness: two agents hold a task each, of different kinds
C9_Witness ==
    /\ pc = "done"
    /\ Cardinality(Keys(creep_targets)) = 2
    /\ \E p \in creep_targets, q \in creep_targets : p[2].kind # q[2].kind

\* C10: once an agent is gone from the live creeps, its identity is
\* eventually removed from the registry.
C10_DeadAgentsRemoved ==
    \A c \in InitialCreeps(2) :
        [](c \in Keys(creep_targets) /\ c \notin alive
             => <>(c \notin Keys(creep_targets)))

(***************************************************************************)
(* Names of the creeps the spawn loop creates.                             *)
(***************************************************************************)
\* the spawn loop has asked a spawn for a creep
SpawnRequest == SpawnPass /\ last.body # NoBody

\* the value of additional when the last request was made
AdditionalBefore ==
    IF last.result = "Ok" THEN additional - 1 ELSE additional

\* C11: the name of every creation request is "<tick>-<additional>", with
\* additional the number of creeps created so far in the tick; the creeps
\* created in a tick have pairwise distinct names, none of them the name of
\* a creep of an earlier tick, so that the host never has to refuse a
\* request for its name.
C11_UniqueAgentNames ==
    /\ Cardinality(created) = additional
    /\ created \cap alive = {}
    /\ SpawnRequest =>
         /\ last.name = Digits(tick) \o <<"-">> \o Digits(AdditionalBefore)
         /\ last.result # "NameExists"

\* two creeps were created in one tick, after a tick that created two
C11_Witness ==
    /\ SpawnRequest
    /\ last.result = "Ok"
    /\ additional = 2
    /\ last.name = CreepName(tick, 1)
    /\ CreepName(tick - 1, 1) \in alive

(***************************************************************************)
(* The biased draw of a source.                                            *)
(***************************************************************************)
\* the last step was the selector on a creep without energy, in a room with
\* an active source
HarvestPass == VacantPass /\ last.used = 0 /\ ~last.panicked

\* the pairs of draws over 0..n-1 after which the selector takes a source
\* of index at least t
PairsFrom(n, t) ==
    {d \in (0..(n - 1)) \X (0..(n - 1)) :
        SelectHarvest(n, d[1], d[2]).kind = "Harvest"
        /\ SelectHarvest(n, d[1], d[2]).id >= t}

\* the single draws over 0..n-1 of at least t
SinglesFrom(n, t) == {u \in 0..(n - 1) : u >= t}

\* C12: with N >= 1 active sources the selector takes the source whose
\* index is the larger of its two draws, always an index of the list; of
\* the N*N pairs of draws exactly 2k+1 select index k, and for every t the
\* share of pairs selecting an index >= t is at least the share of single
\* draws >= t.
C12_HarvestSelectionBias ==
    HarvestPass =>
        LET n == last.sources
            u1 == last.draws[1]
            u2 == last.draws[2]
        IN /\ n >= 1
           /\ last.after.kind = "Harvest"
           /\ last.after.id \in 0..(n - 1)
           /\ last.after.id \in {u1, u2}
           /\ last.after.id >= u1 /\ last.after.id >= u2
           /\ \A k \in 0..(n - 1) :
                Cardinality(PairsFrom(n, k) \ PairsFrom(n, k + 1)) = 2 * k + 1
           /\ \A t \in 0..n :
                Cardinality(PairsFrom(n, t)) >= n * Cardinality(SinglesFrom(n, t))

\* of at least three sources the second draw, the larger one, was taken
C12_Witness ==
    /\ HarvestPass
    /\ last.sources >= 3
    /\ last.draws[1] < last.draws[2]
    /\ last.after.id = last.draws[2]
    /\ last.after.id < last.sources - 1

(***************************************************************************)
(* The executor, arm by arm.                                               *)
(***************************************************************************)
\* the arms whose terminal action evicts by its error closure
ClosureKinds == {"Upgrade", "Harvest", "Construct", "Store"}

\* the errors of a terminal action other than NotInRange
Rejections == ActionResults \ {"Ok", "NotInRange"}

\* C13: for an Upgrade, Harvest, Construct or Store task whose guard passes,
\* whose referent resolves and whose agent is in range, a terminal action
\* that fails for a reason other than out-of-range leaves the agent's entry
\* vacant, and no move directive is issued.
C13_ActionRejectedEvicts ==
    (/\ OccupiedPass
     /\ last.before.kind \in ClosureKinds
     /\ last.resolve = "Some"
     /\ ~TooFar
     /\ last.result \in Rejections) =>
        /\ last.actions = 1
        /\ IsVacant(creep_targets, last.creep)
        /\ last.moves = 0

\* a harvest of a depleted source was rejected and the entry is gone
C13_Witness ==
    /\ OccupiedPass
    /\ last.before.kind = "Harvest"
    /\ last.actions = 1
    /\ last.result = "NotEnough"
    /\ IsVacant(creep_targets, last.creep)

\* C14: when an in-range terminal action succeeds, the entry still holds the
\* same task for Upgrade, Harvest, Construct and Store; a Repair entry is
\* vacant after any pass in which its repair action was attempted.
C14_SuccessRegistryEffect ==
    (OccupiedPass /\ last.actions = 1) =>
        /\ (last.before.kind \in ClosureKinds /\ last.result = "Ok") =>
             Holds(last.creep, last.before)
        /\ last.before.kind = "Repair" =>
             IsVacant(creep_targets, last.creep)

\* a repair succeeded and the entry is gone
C14_Witness ==
    /\ OccupiedPass
    /\ last.before.kind = "Repair"
    /\ last.actions = 1
    /\ last.result = "Ok"
    /\ IsVacant(creep_targets, last.creep)

\* C15: for an occupied entry whose guard passes and whose referent
\* resolves, an agent farther than 1 from a Harvest or Store target, or
\* farther than 3 from an Upgrade, Construct or Repair target, issues
\* exactly one move directive and no terminal action, and its entry is
\* unchanged whatever the move returns.
C15_OutOfRangeStep ==
    (OccupiedPass /\ last.resolve = "Some" /\ TooFar) =>
        /\ last.moves = 1
        /\ last.move \in MoveResults
        /\ last.actions = 0
        /\ last.result = "None"
        /\ Holds(last.creep, last.before)

\* a creep two steps from its source moved, found no path and kept its task
C15_Witness ==
    /\ OccupiedPass
    /\ last.before.kind = "Harvest"
    /\ last.dist = NearRange + 1
    /\ last.move = "NoPath"
    /\ Holds(last.creep, last.before)

\* C16: an Upgrade entry of an agent carrying no energy, and a Harvest
\* entry of an agent with no free capacity, is removed in that pass without
\* resolving the referent and without an action or move directive;
\* Construct, Store and Repair entries always get as far as resolving
\* their referent.
C16_GuardFailureEvicts ==
    OccupiedPass =>
        /\ (\/ last.before.kind = "Upgrade" /\ last.used = 0
            \/ last.before.kind = "Harvest" /\ last.free = 0) =>
             /\ IsVacant(creep_targets, last.creep)
             /\ last.resolve = "NotCalled"
             /\ last.actions = 0
             /\ last.moves = 0
        /\ last.before.kind \in {"Construct", "Store", "Repair"} =>
             last.resolve # "NotCalled"

\* a full creep lost its Harvest entry without a look at the source
C16_Witness ==
    /\ OccupiedPass
    /\ last.before.kind = "Harvest"
    /\ last.free = 0
    /\ last.resolve = "NotCalled"
    /\ IsVacant(creep_targets, last.creep)

(***************************************************************************)
(* The registry across one run_creep call.                                 *)
(***************************************************************************)
\* the tasks the registry m holds for creep c
Tasks(m, c) == {p[2] : p \in {q \in m : q[1] = c}}

\* the step is a run_creep call
CreepPassStep == pc = "creeps" /\ last'.step = "creep"

\* every name the registry or the host knows before or after the step
Names == alive \cup Keys(creep_targets) \cup Keys(creep_targets')

\* C17: across a pass an agent's entry changes only from vacant to
\* occupied, by the selector's insertion, or from occupied to vacant, by
\* the executor's eviction; an occupied entry is never given another task
\* in place and the selector never runs on an occupied entry.
C17_RegistryTransitions ==
    [][CreepPassStep =>
         /\ \A c \in Names :
              \/ Tasks(creep_targets', c) = Tasks(creep_targets, c)
              \/ /\ Tasks(creep_targets, c) = {}
                 /\ Cardinality(Tasks(creep_targets', c)) = 1
                 /\ last'.branch = "vacant"
              \/ /\ Cardinality(Tasks(creep_targets, c)) = 1
                 /\ Tasks(creep_targets', c) = {}
                 /\ last'.branch = "occupied"
         /\ last'.branch = "vacant" =>
              Tasks(creep_targets, last'.creep) = {}
         /\ last'.branch = "occupied" =>
              Cardinality(Tasks(creep_targets, last'.creep)) = 1]_vars

\* in a later tick than the first the selector filled a vacant entry
C17_Witness ==
    /\ VacantPass
    /\ last.after # NoTarget
    /\ Holds(last.creep, last.after)
    /\ tick > FirstTick + 1

\* C18: a run_creep call leaves the entry of every other name unchanged,
\* also when it evicts its own entry; a creep that is still spawning is
\* skipped, the registry unchanged and no directive issued.
C18_PerAgentFrame ==
    [][CreepPassStep =>
         /\ \A c \in Names \ {last'.creep} :
              Tasks(creep_targets', c) = Tasks(creep_targets, c)
         /\ last'.creep \in spawning =>
              /\ last'.branch = "spawning"
              /\ creep_targets' = creep_targets
              /\ last'.resolve = "NotCalled"
              /\ last'.actions = 0
              /\ last'.moves = 0
              /\ ~last'.panicked]_vars

\* a creep's entry was evicted while another name still holds its task
C18_Witness ==
    /\ OccupiedPass
    /\ last.before # NoTarget
    /\ IsVacant(creep_targets, last.creep)
    /\ creep_targets # {}

(***************************************************************************)
(* The last priority of the selector and the hint of the move.             *)
(***************************************************************************)
\* C19: an agent with a vacant entry and carried energy > 0, processed in
\* a room with at least one controller, has an occupied entry after the
\* pass; when no earlier priority matches, the entry holds Upgrade of the
\* first controller of the room.
C19_UniversalFallback ==
    (VacantPass /\ last.used > 0 /\ Matching(AnyController) # {}) =>
        /\ IsOccupied(creep_targets, last.creep)
        /\ last.after # NoTarget
        /\ Holds(last.creep, last.after)
        /\ FirstPriority = 7 =>
             /\ last.after.kind = "Upgrade"
             /\ last.after.id \in Matching(AnyController)
             /\ \A i \in Matching(AnyController) : last.after.id <= i

\* with a healthy controller, a full spawn and no site, Upgrade was taken
C19_Witness ==
    /\ VacantPass
    /\ last.used > 0
    /\ FirstPriority = 7
    /\ Len(last.structures) = 2
    /\ last.structures[1].kind = "Spawn"
    /\ Holds(last.creep, [kind |-> "Upgrade", sub |-> "None", id |-> 2])

\* the last step was default_move_to on the target of an occupied entry
MovePass == OccupiedPass /\ last.moves = 1

\* C20: the reuse hint of a move towards a Harvest target is shorter than
\* the hint the code gives to a move towards the Upgrade target.
C20_ReuseHintPerKind ==
    (MovePass /\ last.before.kind = "Harvest") =>
        last.reuse < MoveReuse([kind |-> "Upgrade", sub |-> "None", id |-> 1])

\* C20 as amended: every move directive carries the same reuse hint, 5,
\* whatever the kind of the task.
C20_ReuseHintUniform ==
    MovePass =>
        /\ last.reuse = ReusePath
        /\ \A k \in {"Upgrade", "Harvest", "Construct", "Store", "Repair"} :
             MoveReuse([kind |-> k, sub |-> "None", id |-> 1]) = last.reuse

\* a creep moved towards its source with the hint of every other move
C20_Witness ==
    /\ MovePass
    /\ last.before.kind = "Harvest"
    /\ last.reuse = ReusePath
    /\ last.move = "Ok"

(***************************************************************************)
(* The tower loop and the order of a tick.                                 *)
(***************************************************************************)
\* the hostile creeps of the ranges the tower loop saw in the step
Present == {h \in Hostiles : last'.range[h] > 0}

\* C21: in every tick the tower loop runs right after the start of the
\* tick and before any run_creep call; each tower attacks exactly one
\* hostile creep, one at the least range, when a hostile creep is there,
\* and none otherwise; a failed attack does not end the tick, and the
\* loop leaves the registry as it was.
C21_DefenseController ==
    [][/\ last.step = "start" => last'.step = "towers"
       /\ last'.step = "creep" => last.step \in {"towers", "creep"}
       /\ last'.step = "towers" =>
            /\ last.step = "start"
            /\ ran = {} /\ ran' = {}
            /\ creep_targets' = creep_targets
            /\ pc' \in {"creeps", "spawns", "done"}
            /\ \A t \in Towers :
                 /\ Present = {} =>
                      /\ last'.attack[t] = "None"
                      /\ last'.result[t] = "None"
                 /\ Present # {} =>
                      /\ last'.attack[t] \in Present
                      /\ \A h \in Present :
                           last'.range[last'.attack[t]] <= last'.range[h]
                      /\ last'.result[t] \in AttackResults]_vars

\* with a nearer and a farther hostile creep both towers attacked the
\* nearer one, one attack failed, and the creep loop is next
C21_Witness ==
    /\ last.step = "towers"
    /\ last.range["Hostile1"] = 2
    /\ last.range["Hostile2"] = 1
    /\ \A t \in Towers : last.attack[t] = "Hostile2"
    /\ \E t \in Towers : last.result[t] = "NotEnough"
    /\ creep_targets # {}
    /\ pc = "creeps"

\* C22: in one tick run_creep is called at most once for a creep; a call
\* for a creep that is not spawning is either the executor, on an occupied
\* entry, or the selector, on a vacant one; it issues at most one
\* directive, a terminal action or a move; the executor never leaves a
\* task in the entry that was not there, so that a task evicted in a tick
\* is replaced in a later tick at the earliest, and the selector issues no
\* action or move directive.
C22_OneStepPerTick ==
    [][/\ last'.step # "start" => ran \subseteq ran'
       /\ CreepPassStep =>
            /\ last'.creep \notin ran
            /\ ran' = ran \cup {last'.creep}
            /\ last'.creep \notin spawning =>
                 /\ last'.branch \in {"occupied", "vacant"}
                 /\ last'.branch = "occupied" <=>
                      IsOccupied(creep_targets, last'.creep)
            /\ last'.actions + last'.moves <= 1
            /\ last'.branch = "occupied" =>
                 Tasks(creep_targets', last'.creep)
                     \subseteq Tasks(creep_targets, last'.creep)
            /\ last'.branch = "vacant" =>
                 /\ last'.actions = 0
                 /\ last'.moves = 0
                 /\ Tasks(creep_targets, last'.creep) = {}]_vars

\* the last creep of the loop lost its task to a failed action and the
\* creep loop ended with its entry vacant
C22_Witness ==
    /\ OccupiedPass
    /\ last.actions = 1
    /\ last.moves = 0
    /\ last.result = "Full"
    /\ IsVacant(creep_targets, last.creep)
    /\ ran = alive
    /\ Cardinality(ran) = 2
    /\ pc = "spawns"

=============================================================================
